---- MODULE Spec2Model ----
(***************************************************************************)
(* Verification model of the DP training scripts.                          *)
(*                                                                         *)
(*   Spec        main() and train() of dp_cifar10.py: configuration        *)
(*               checks, privacy-engine attachment, the epoch loop, the    *)
(*               step / virtual_step decision and the checkpoints.         *)
(*   SpecNoise   the representation noising of                             *)
(*               BertForSequenceClassificationWithDP.forward and           *)
(*               Classifier.forward of model.py.                           *)
(*   SpecAttack  Attackers.forward of model.py.                            *)
(*   SpecProcs   the epoch loop of main() run by several processes that    *)
(*               share the checkpoint files.                               *)
(*                                                                         *)
(* Quantities that are floating point in the program are modelled exactly: *)
(* sample rates in hundredths, accuracies as integer levels, normalised    *)
(* representations as reduced fractions, cross-entropy in thousandths.     *)
(***************************************************************************)
EXTENDS Integers, Sequences, FiniteSets, TLC

VARIABLES args, pc, main, tr, engine, disk, hist, bert, cls, att, mp

vars == <<args, pc, main, tr, engine, disk, hist, bert, cls, att, mp>>

(***************************************************************************)
(* Bounds of the model.                                                    *)
(***************************************************************************)
MaxN == 3          \* largest n_accumulation_steps tried
NegN == 2          \* smallest n_accumulation_steps tried is -NegN
MaxL == 3          \* largest len(train_loader) tried
MaxEpochs == 2     \* largest --epochs tried
MaxAcc == 2        \* validation accuracy levels 0..MaxAcc

NValues == (0 - NegN)..MaxN
SampleRates == {4, 20}                 \* --sample-rate, in hundredths
PrintFreqs == {1, 2}                   \* --print-freq
Optims == {"SGD", "RMSprop", "Adam", "Adagrad"}
Platforms == {"linux", "win32"}
LocalRanks == {-1, 0}

(***************************************************************************)
(* Program constants.                                                      *)
(***************************************************************************)
StartEpoch == 1    \* default of --start-epoch
InitBestAcc == 0   \* best_acc1 = 0

(***************************************************************************)
(* Python's  a % n  for a >= 0: the result takes the sign of the divisor.  *)
(* Only called with n # 0 (n = 0 raises ZeroDivisionError).                *)
(***************************************************************************)
PyMod(a, n) == IF n > 0 THEN a % n ELSE 0 - ((0 - a) % (0 - n))

(***************************************************************************)
(* The condition of train's  if  that selects optimizer.step().            *)
(***************************************************************************)
StepTakenNoLast(i, n, L) == PyMod(i + 1, n) = 0

StepTakenOffByOne(i, n, L) == (PyMod(i, n) = 0) \/ (i + 1 = L)

StepTaken(i, n, L) == (PyMod(i + 1, n) = 0) \/ (i + 1 = L)

(***************************************************************************)
(* The configuration check of main and the optimizer selection.            *)
(***************************************************************************)
AccumulationRejectedLoose(a) == a.disable_dp /\ a.n_accumulation_steps > 2

AccumulationRejected(a) == a.disable_dp /\ a.n_accumulation_steps > 1

OptimRecognized(a) == a.optim \in {"SGD", "RMSprop", "Adam"}

(***************************************************************************)
(* sample_rate handed to PrivacyEngine(...), in hundredths.                *)
(***************************************************************************)
EngineSampleRateMicro(a) == a.sample_rate

EngineSampleRate(a) == a.sample_rate * a.n_accumulation_steps

(***************************************************************************)
(* The privacy engine as the trainer sees it.  The engine is a library     *)
(* object; its effects are taken from its contract: step() adds noise,     *)
(* applies the update, clears the accumulated gradients and advances the   *)
(* accounting by one step; virtual_step() only accumulates.                *)
(***************************************************************************)
NoEngine == [attached |-> FALSE, sample_rate |-> 0, steps |-> 0,
             noise_adds |-> 0, accumulated |-> 0]

NewEngine(rate) == [attached |-> TRUE, sample_rate |-> rate, steps |-> 0,
                    noise_adds |-> 0, accumulated |-> 0]

EngineStep(e) == [e EXCEPT !.steps = @ + 1, !.noise_adds = @ + 1,
                           !.accumulated = 0]

EngineVirtualStep(e) == [e EXCEPT !.accumulated = @ + 1]

(***************************************************************************)
(* Where the epoch loop continues after an epoch's checkpoint.             *)
(***************************************************************************)
AfterCheckpointReattach == "attach"

AfterCheckpoint == "epoch_loop"

(***************************************************************************)
(* is_best and best_acc1 of the epoch loop.                                *)
(***************************************************************************)
IsBestOrEqual(top1, best) == top1 >= best

IsBest(top1, best) == top1 > best

MaxOf(a, b) == IF a >= b THEN a ELSE b

NoFile == [exists |-> FALSE, epoch |-> 0, best_acc1 |-> 0]

(***************************************************************************)
(* State that the other specifications use; constant under Spec.           *)
(***************************************************************************)
IdleBert == [pc |-> "idle"]
IdleCls == [pc |-> "idle"]
IdleAtt == [pc |-> "idle"]
IdleMp == [pc |-> "idle"]

(***************************************************************************)
(* Initial state of a run of main: the parsed command line.                *)
(***************************************************************************)
Init ==
    /\ args \in [disable_dp : BOOLEAN,
                 n_accumulation_steps : NValues,
                 sample_rate : SampleRates,
                 print_freq : PrintFreqs,
                 optim : Optims,
                 local_rank : LocalRanks,
                 secure_rng : BOOLEAN,
                 epochs : 0..MaxEpochs,
                 platform : Platforms,
                 csprng_installed : BOOLEAN,
                 loader_len : 1..MaxL]
    /\ pc = "setup"
    /\ main = [distributed |-> FALSE, wrapper |-> "none", sampler_rate |-> 0,
               optimizer |-> "none", epoch |-> 0, best_acc1 |-> InitBestAcc,
               top1_acc |-> 0, err |-> "none"]
    /\ tr = [i |-> 0, calls |-> <<>>, printed |-> "none"]
    /\ engine = NoEngine
    /\ disk = [checkpoint |-> NoFile, best |-> NoFile, writes |-> 0, copies |-> 0]
    /\ hist = [microbatches |-> 0, steps |-> 0, virtuals |-> 0, accs |-> <<>>,
               best_flags |-> <<>>, stored |-> <<>>]
    /\ bert = IdleBert
    /\ cls = IdleCls
    /\ att = IdleAtt
    /\ mp = IdleMp

Raise(e) ==
    /\ pc' = "error"
    /\ main' = [main EXCEPT !.err = e]

(* main: distributed setup; setup() refuses win32. *)
Setup ==
    /\ pc = "setup"
    /\ IF args.local_rank # -1
         THEN IF args.platform = "win32"
                THEN Raise("NotImplementedError")
                ELSE /\ pc' = "check_accumulation"
                     /\ main' = [main EXCEPT !.distributed = TRUE]
         ELSE /\ pc' = "check_accumulation"
              /\ UNCHANGED main
    /\ UNCHANGED <<args, tr, engine, disk, hist, bert, cls, att, mp>>

(* main: virtual steps need DP. *)
CheckAccumulation ==
    /\ pc = "check_accumulation"
    /\ IF AccumulationRejected(args)
         THEN Raise("ValueError")
         ELSE /\ pc' = "secure_rng"
              /\ UNCHANGED main
    /\ UNCHANGED <<args, tr, engine, disk, hist, bert, cls, att, mp>>

(* main: the optional secure random generator. *)
SecureRng ==
    /\ pc = "secure_rng"
    /\ IF args.secure_rng /\ ~args.csprng_installed
         THEN Raise("ImportError")
         ELSE /\ pc' = "build"
              /\ UNCHANGED main
    /\ UNCHANGED <<args, tr, engine, disk, hist, bert, cls, att, mp>>

(* main: the sampler of the train loader, best_acc1, the model wrapper. *)
Build ==
    /\ pc = "build"
    /\ pc' = "optimizer"
    /\ main' = [main EXCEPT
                  !.sampler_rate = args.sample_rate,
                  !.best_acc1 = InitBestAcc,
                  !.wrapper = IF main.distributed
                                THEN IF ~args.disable_dp THEN "DPDDP" ELSE "DDP"
                                ELSE "none"]
    /\ UNCHANGED <<args, tr, engine, disk, hist, bert, cls, att, mp>>

(* main: the optimizer by name. *)
MakeOptimizer ==
    /\ pc = "optimizer"
    /\ IF OptimRecognized(args)
         THEN /\ pc' = "attach"
              /\ main' = [main EXCEPT !.optimizer = args.optim]
         ELSE Raise("NotImplementedError")
    /\ UNCHANGED <<args, tr, engine, disk, hist, bert, cls, att, mp>>

(* main: the privacy engine is built and attached, when DP is enabled. *)
Attach ==
    /\ pc = "attach"
    /\ engine' = IF ~args.disable_dp
                   THEN NewEngine(EngineSampleRate(args))
                   ELSE engine
    /\ pc' = "epoch_loop"
    /\ UNCHANGED <<args, main, tr, disk, hist, bert, cls, att, mp>>

(* main: for epoch in range(start_epoch, epochs + 1); main.epoch = 0 is    *)
(* the loop not yet entered.                                               *)
EpochLoop ==
    /\ pc = "epoch_loop"
    /\ LET next == IF main.epoch = 0 THEN StartEpoch ELSE main.epoch + 1
       IN IF next <= args.epochs
            THEN /\ main' = [main EXCEPT !.epoch = next]
                 /\ pc' = "train"
            ELSE /\ pc' = "cleanup"
                 /\ UNCHANGED main
    /\ UNCHANGED <<args, tr, engine, disk, hist, bert, cls, att, mp>>

(* train: entry, and the start of the loop over the train loader. *)
TrainEnter ==
    /\ pc = "train"
    /\ tr' = [i |-> 0, calls |-> <<>>, printed |-> "none"]
    /\ pc' = "forward"
    /\ UNCHANGED <<args, main, engine, disk, hist, bert, cls, att, mp>>

(* train: forward pass, loss, statistics and loss.backward(). *)
TrainBackward ==
    /\ pc = "forward"
    /\ hist' = [hist EXCEPT !.microbatches = @ + 1]
    /\ pc' = "optimize"
    /\ UNCHANGED <<args, main, tr, engine, disk, bert, cls, att, mp>>

(* train: the condition of the if; n_accumulation_steps = 0 divides by 0. *)
TrainZeroDivision ==
    /\ pc = "optimize"
    /\ args.n_accumulation_steps = 0
    /\ Raise("ZeroDivisionError")
    /\ UNCHANGED <<args, tr, engine, disk, hist, bert, cls, att, mp>>

(* train: optimizer.step(); optimizer.zero_grad(). *)
TrainStep ==
    /\ pc = "optimize"
    /\ args.n_accumulation_steps # 0
    /\ StepTaken(tr.i, args.n_accumulation_steps, args.loader_len)
    /\ tr' = [tr EXCEPT !.calls = Append(@, "step")]
    /\ hist' = [hist EXCEPT !.steps = @ + 1]
    /\ engine' = IF engine.attached THEN EngineStep(engine) ELSE engine
    /\ pc' = "print"
    /\ UNCHANGED <<args, main, disk, bert, cls, att, mp>>

(* train: optimizer.virtual_step(); it exists only on an optimizer that a  *)
(* privacy engine was attached to.                                         *)
TrainVirtualStep ==
    /\ pc = "optimize"
    /\ args.n_accumulation_steps # 0
    /\ ~StepTaken(tr.i, args.n_accumulation_steps, args.loader_len)
    /\ tr' = [tr EXCEPT !.calls = Append(@, "virtual")]
    /\ hist' = [hist EXCEPT !.virtuals = @ + 1]
    /\ IF engine.attached
         THEN /\ engine' = EngineVirtualStep(engine)
              /\ pc' = "print"
              /\ UNCHANGED main
         ELSE /\ Raise("AttributeError")
              /\ UNCHANGED engine
    /\ UNCHANGED <<args, disk, bert, cls, att, mp>>

(* train: the progress line, then the next microbatch or the return. *)
TrainPrint ==
    /\ pc = "print"
    /\ tr' = [tr EXCEPT
                !.i = @ + 1,
                !.printed = IF tr.i % args.print_freq = 0
                              THEN IF ~args.disable_dp THEN "privacy" ELSE "plain"
                              ELSE "none"]
    /\ pc' = IF tr.i + 1 < args.loader_len THEN "forward" ELSE "test"
    /\ UNCHANGED <<args, main, engine, disk, hist, bert, cls, att, mp>>

(* main: test() returns the validation accuracy of the epoch. *)
Test ==
    /\ pc = "test"
    /\ \E acc \in 0..MaxAcc :
         /\ main' = [main EXCEPT !.top1_acc = acc]
         /\ hist' = [hist EXCEPT !.accs = Append(@, acc)]
    /\ pc' = "checkpoint"
    /\ UNCHANGED <<args, tr, engine, disk, bert, cls, att, mp>>

(* main: is_best, best_acc1, save_checkpoint, and the loop's next test. *)
SaveCheckpoint ==
    /\ pc = "checkpoint"
    /\ LET is_best == IsBest(main.top1_acc, main.best_acc1)
           best == MaxOf(main.top1_acc, main.best_acc1)
           file == [exists |-> TRUE, epoch |-> main.epoch + 1, best_acc1 |-> best]
       IN /\ disk' = [checkpoint |-> file,
                      best |-> IF is_best THEN file ELSE disk.best,
                      writes |-> disk.writes + 1,
                      copies |-> IF is_best THEN disk.copies + 1 ELSE disk.copies]
          /\ hist' = [hist EXCEPT !.best_flags = Append(@, is_best),
                                  !.stored = Append(@, best)]
          /\ main' = [main EXCEPT !.best_acc1 = best]
    /\ pc' = AfterCheckpoint
    /\ UNCHANGED <<args, tr, engine, bert, cls, att, mp>>

(* main: cleanup() of the process group, when one was set up. *)
Cleanup ==
    /\ pc = "cleanup"
    /\ pc' = "done"
    /\ UNCHANGED <<args, main, tr, engine, disk, hist, bert, cls, att, mp>>

Next ==
    \/ Setup
    \/ CheckAccumulation
    \/ SecureRng
    \/ Build
    \/ MakeOptimizer
    \/ Attach
    \/ EpochLoop
    \/ TrainEnter
    \/ TrainBackward
    \/ TrainZeroDivision
    \/ TrainStep
    \/ TrainVirtualStep
    \/ TrainPrint
    \/ Test
    \/ SaveCheckpoint
    \/ Cleanup

Spec == Init /\ [][Next]_vars

(***************************************************************************)
(* The trainer at rest, for the specifications of model.py.                *)
(***************************************************************************)
IdleTrainer ==
    /\ args = [disable_dp |-> FALSE, n_accumulation_steps |-> 1,
               sample_rate |-> 4, print_freq |-> 1, optim |-> "SGD",
               local_rank |-> 0, secure_rng |-> FALSE, epochs |-> 0,
               platform |-> "linux", csprng_installed |-> FALSE,
               loader_len |-> 1]
    /\ pc = "idle"
    /\ main = [distributed |-> FALSE, wrapper |-> "none", sampler_rate |-> 0,
               optimizer |-> "none", epoch |-> 0, best_acc1 |-> InitBestAcc,
               top1_acc |-> 0, err |-> "none"]
    /\ tr = [i |-> 0, calls |-> <<>>, printed |-> "none"]
    /\ engine = NoEngine
    /\ disk = [checkpoint |-> NoFile, best |-> NoFile, writes |-> 0, copies |-> 0]
    /\ hist = [microbatches |-> 0, steps |-> 0, virtuals |-> 0, accs |-> <<>>,
               best_flags |-> <<>>, stored |-> <<>>]

trainerVars == <<args, pc, main, tr, engine, disk, hist>>

(***************************************************************************)
(* model.py: representation noising.                                       *)
(*                                                                         *)
(* A tensor of shape (B, D) is a sequence of B rows of D numbers.  Numbers *)
(* produced by the division are fractions <<num, den>> in lowest terms     *)
(* with den > 0; <<0, 0>> is NaN (0/0), <<1, 0>> and <<-1, 0>> are the     *)
(* infinities (x/0).                                                       *)
(***************************************************************************)
MaxB == 2          \* largest batch size tried
DropScale == 2     \* 1 / (1 - hidden_dropout_prob) for the dropout tried

ReprRows == {<<1, 1, 1>>, <<0, 2, 1>>, <<3, 1, 2>>, <<0, 0, 4>>}
DropMasks == {<<TRUE, TRUE, TRUE>>, <<FALSE, TRUE, TRUE>>,
              <<TRUE, FALSE, FALSE>>, <<FALSE, FALSE, FALSE>>}
NoiseValues == {-1, 2}

NaN == <<0, 0>>

Abs(x) == IF x < 0 THEN 0 - x ELSE x

RECURSIVE GCD(_, _)
GCD(a, b) == IF b = 0 THEN a ELSE GCD(b, a % b)

(* a / b as the float division does it, exactly. *)
FDiv(a, b) ==
    IF b = 0
      THEN IF a = 0 THEN NaN ELSE IF a > 0 THEN <<1, 0>> ELSE <<-1, 0>>
      ELSE LET sa == IF b < 0 THEN 0 - a ELSE a
               sb == Abs(b)
               g == GCD(Abs(sa), sb)
           IN <<sa \div g, sb \div g>>

(* fraction + integer. *)
FAdd(f, k) == IF f[2] = 0 THEN f ELSE FDiv(f[1] + k * f[2], f[2])

Finite(f) == f[2] # 0

SeqMin(row) == CHOOSE x \in {row[d] : d \in 1..Len(row)} :
                  \A d \in 1..Len(row) : x <= row[d]

SeqMax(row) == CHOOSE x \in {row[d] : d \in 1..Len(row)} :
                  \A d \in 1..Len(row) : x >= row[d]

Column(t, d) == [i \in 1..Len(t) |-> t[i][d]]

(* torch.min / torch.max with keepdims: the reduced axis keeps length 1. *)
MinDim0(t) == << [d \in 1..Len(t[1]) |-> SeqMin(Column(t, d))] >>

MinLastDim(t) == [i \in 1..Len(t) |-> << SeqMin(t[i]) >>]

MaxLastDim(t) == [i \in 1..Len(t) |-> << SeqMax(t[i]) >>]

(* noise.view(-1, 1): shape (B,) to shape (B, 1). *)
NoiseView(noise) == [i \in 1..Len(noise) |-> << noise[i] >>]

(* Element (i, d) of a tensor broadcast against a (B, D) tensor: an axis   *)
(* of length 1 is repeated.                                                *)
BroadcastAt(u, i, d) ==
    u[IF Len(u) = 1 THEN 1 ELSE i][IF Len(u[1]) = 1 THEN 1 ELSE d]

(* (t - mn) / (mx - mn), elementwise with broadcasting. *)
Normalize(t, mn, mx) ==
    [i \in 1..Len(t) |->
        [d \in 1..Len(t[i]) |->
            FDiv(t[i][d] - BroadcastAt(mn, i, d),
                 BroadcastAt(mx, i, d) - BroadcastAt(mn, i, d))]]

(* t += v, elementwise with broadcasting. *)
AddBroadcast(t, v) ==
    [i \in 1..Len(t) |->
        [d \in 1..Len(t[i]) |-> FAdd(t[i][d], BroadcastAt(v, i, d))]]

(* nn.Dropout: identity in eval mode; in training mode the masked entries  *)
(* become 0 and the kept ones are scaled by 1 / (1 - p).                   *)
Dropout(t, training, mask) ==
    IF ~training THEN t
    ELSE [i \in 1..Len(t) |->
            [d \in 1..Len(t[i]) |->
                IF mask[i][d] THEN t[i][d] * DropScale ELSE 0]]

(* The attributes Classifier.__init__ sets on the module. *)
ClassifierAttrs == {"config", "classifier"}

InitNoise ==
    /\ IdleTrainer
    /\ att = IdleAtt
    /\ mp = IdleMp
    /\ \E B \in 1..MaxB :
         \E t \in [1..B -> ReprRows] :
           /\ \E nz \in [1..B -> NoiseValues], tm \in BOOLEAN :
                bert = [pc |-> "dropout", training |-> tm, pooled |-> t,
                        noise |-> nz, repr |-> <<>>, mn |-> <<>>, mx |-> <<>>,
                        out |-> <<>>]
           /\ cls = [pc |-> "start", inputs |-> t, out |-> <<>>,
                     err |-> "none"]

(* BertForSequenceClassificationWithDP.forward: self.dropout(pooled_output) *)
BertDropout ==
    /\ bert.pc = "dropout"
    /\ \E mask \in [1..Len(bert.pooled) -> DropMasks] :
         /\ bert.training \/ \A i \in 1..Len(mask) : mask[i] = <<TRUE, TRUE, TRUE>>
         /\ LET t == Dropout(bert.pooled, bert.training, mask)
            IN bert' = [bert EXCEPT !.pooled = t, !.repr = t, !.pc = "minmax"]
    /\ UNCHANGED <<trainerVars, cls, att, mp>>

(* forward: pooled_output_min, pooled_output_max. *)
BertMinMax ==
    /\ bert.pc = "minmax"
    /\ bert' = [bert EXCEPT !.mn = MinLastDim(bert.pooled),
                            !.mx = MaxLastDim(bert.pooled),
                            !.pc = "normalize"]
    /\ UNCHANGED <<trainerVars, cls, att, mp>>

(* forward: the min-max scaling. *)
BertNormalize ==
    /\ bert.pc = "normalize"
    /\ bert' = [bert EXCEPT !.pooled = Normalize(bert.pooled, bert.mn, bert.mx),
                            !.pc = "noise"]
    /\ UNCHANGED <<trainerVars, cls, att, mp>>

(* forward: pooled_output += noise.view(-1, 1). *)
BertAddNoise ==
    /\ bert.pc = "noise"
    /\ bert' = [bert EXCEPT
                  !.pooled = AddBroadcast(bert.pooled, NoiseView(bert.noise)),
                  !.pc = "classify"]
    /\ UNCHANGED <<trainerVars, cls, att, mp>>

(* forward: the classifier head and the returned tuple; the noised         *)
(* representation is returned next to the logits.                          *)
BertReturn ==
    /\ bert.pc = "classify"
    /\ bert' = [bert EXCEPT !.out = bert.pooled, !.pc = "done"]
    /\ UNCHANGED <<trainerVars, cls, att, mp>>

(* Classifier.forward: self.dropout is read first; an attribute the        *)
(* constructor never set raises AttributeError.                            *)
ClassifierForward ==
    /\ cls.pc = "start"
    /\ IF "dropout" \in ClassifierAttrs
         THEN cls' = [cls EXCEPT
                        !.out = Normalize(cls.inputs, MinLastDim(cls.inputs),
                                          MaxLastDim(cls.inputs)),
                        !.pc = "done"]
         ELSE cls' = [cls EXCEPT !.pc = "error", !.err = "AttributeError"]
    /\ UNCHANGED <<trainerVars, bert, att, mp>>

NextNoise ==
    \/ BertDropout
    \/ BertMinMax
    \/ BertNormalize
    \/ BertAddNoise
    \/ BertReturn
    \/ ClassifierForward

SpecNoise == InitNoise /\ [][NextNoise]_vars

(***************************************************************************)
(* model.py: the attacker ensemble.                                        *)
(*                                                                         *)
(* Each Attacker is a small network of library layers; what the ensemble   *)
(* sees of attacker i is its logits on the shared input batch, one pair    *)
(* (n_classes = 2) per example.  nn.CrossEntropyLoss is the batch mean of  *)
(* log(1 + exp(-(z[y] - z[1-y]))), here in thousandths.                    *)
(***************************************************************************)
MaxK == 2          \* largest n_attack tried

AttLogits == { << <<0, 1>>, <<1, 0>> >>,
               << <<2, 0>>, <<0, 0>> >>,
               << <<1, 1>>, <<0, 2>> >> }
AttLabels == { <<0, 1>>, <<1, 1>>, <<0, 0>> }

(* 1000 * ln(1 + exp(-d)) for the margin d of the true class. *)
SoftplusNeg(d) ==
    CASE d = -2 -> 2127
      [] d = -1 -> 1313
      [] d = 0 -> 693
      [] d = 1 -> 313
      [] d = 2 -> 127

RECURSIVE SumSeq(_)
SumSeq(q) == IF q = <<>> THEN 0 ELSE Head(q) + SumSeq(Tail(q))

(* self.xentropy(logits, output): mean over the batch. *)
XEntropy(logits, labels) ==
    SumSeq([b \in 1..Len(logits) |->
               SoftplusNeg(logits[b][labels[b] + 1] - logits[b][2 - labels[b]])])
        \div Len(logits)

(* torch.argmax(logits, dim=-1): per example, the first maximal class. *)
ArgmaxLastDim(logits) ==
    [b \in 1..Len(logits) |->
        (CHOOSE c \in 1..Len(logits[b]) :
            /\ \A c2 \in 1..Len(logits[b]) : logits[b][c] >= logits[b][c2]
            /\ \A c2 \in 1..(c - 1) : logits[b][c2] < logits[b][c]) - 1]

(* loss += x *)
LossOverwrite(loss, x) == x

LossAccumulate(loss, x) == loss + x

InitAttack ==
    /\ IdleTrainer
    /\ bert = IdleBert
    /\ cls = IdleCls
    /\ mp = IdleMp
    /\ \E k \in 1..MaxK, m \in 0..(MaxK + 1) :
         \E lg \in [1..k -> AttLogits], lb \in [1..m -> AttLabels] :
           att = [pc |-> "enter", n_attack |-> k, logits |-> lg, outputs |-> lb,
                  i |-> 0, loss |-> 0, preds |-> <<>>, err |-> "none"]

(* Attackers.forward: loss = 0., preds = []. *)
AttackersEnter ==
    /\ att.pc = "enter"
    /\ att' = [att EXCEPT !.pc = "loop", !.i = 0, !.loss = 0, !.preds = <<>>]
    /\ UNCHANGED <<trainerVars, bert, cls, mp>>

(* forward: one iteration of  for i, output in enumerate(outputs);         *)
(* self.attackers[i] raises IndexError past the last attacker.             *)
AttackersIterate ==
    /\ att.pc = "loop"
    /\ att.i < Len(att.outputs)
    /\ IF att.i + 1 > att.n_attack
         THEN att' = [att EXCEPT !.pc = "error", !.err = "IndexError"]
         ELSE LET logits == att.logits[att.i + 1]
                  output == att.outputs[att.i + 1]
              IN att' = [att EXCEPT
                           !.preds = Append(@, ArgmaxLastDim(logits)),
                           !.loss = LossAccumulate(@, XEntropy(logits, output)),
                           !.i = @ + 1]
    /\ UNCHANGED <<trainerVars, bert, cls, mp>>

(* forward: return loss, preds. *)
AttackersReturn ==
    /\ att.pc = "loop"
    /\ att.i = Len(att.outputs)
    /\ att' = [att EXCEPT !.pc = "done"]
    /\ UNCHANGED <<trainerVars, bert, cls, mp>>

NextAttack ==
    \/ AttackersEnter
    \/ AttackersIterate
    \/ AttackersReturn

SpecAttack == InitAttack /\ [][NextAttack]_vars

(***************************************************************************)
(* dp_cifar10.py run by several processes (local_rank # -1).               *)
(*                                                                         *)
(* Every process runs the same main() with the same command line, so all   *)
(* of them run the epoch loop and call save_checkpoint with the same file  *)
(* name.  torch.save and shutil.copyfile take time: a process is inside    *)
(* them between the Begin and the End action.  Inside train the processes  *)
(* meet at the collective of each optimizer step.                          *)
(***************************************************************************)
NumProcs == 2      \* processes of the run

Procs == 1..NumProcs

(* The collective of a pass's last optimizer step: a process gets past it  *)
(* once every process has entered train for that epoch.                    *)
StepBarrierPassed(p) ==
    \A q \in Procs : mp.proc[q].epoch >= mp.proc[p].epoch

InitProcs ==
    /\ IdleTrainer
    /\ bert = IdleBert
    /\ cls = IdleCls
    /\ att = IdleAtt
    /\ \E E \in 1..MaxEpochs :
         mp = [epochs |-> E,
               proc |-> [p \in Procs |->
                           [pc |-> "epoch_loop", epoch |-> 0,
                            best_acc1 |-> InitBestAcc, top1_acc |-> 0,
                            is_best |-> FALSE]],
               writers |-> {},
               copiers |-> {}]

(* main: for epoch in range(start_epoch, epochs + 1), in process p. *)
MpEpochLoop(p) ==
    /\ mp.proc[p].pc = "epoch_loop"
    /\ LET next == IF mp.proc[p].epoch = 0 THEN StartEpoch
                   ELSE mp.proc[p].epoch + 1
       IN mp' = IF next <= mp.epochs
                  THEN [mp EXCEPT !.proc[p].epoch = next, !.proc[p].pc = "train"]
                  ELSE [mp EXCEPT !.proc[p].pc = "done"]
    /\ UNCHANGED <<trainerVars, bert, cls, att>>

(* main: train(...) of the epoch, in process p. *)
MpTrain(p) ==
    /\ mp.proc[p].pc = "train"
    /\ StepBarrierPassed(p)
    /\ mp' = [mp EXCEPT !.proc[p].pc = "test"]
    /\ UNCHANGED <<trainerVars, bert, cls, att>>

(* main: top1_acc = test(...), is_best and best_acc1, in process p. *)
MpTest(p) ==
    /\ mp.proc[p].pc = "test"
    /\ \E acc \in 0..MaxAcc :
         mp' = [mp EXCEPT
                  !.proc[p].top1_acc = acc,
                  !.proc[p].is_best = IsBest(acc, mp.proc[p].best_acc1),
                  !.proc[p].best_acc1 = MaxOf(acc, mp.proc[p].best_acc1),
                  !.proc[p].pc = "checkpoint"]
    /\ UNCHANGED <<trainerVars, bert, cls, att>>

(* save_checkpoint: torch.save(state, filename) starts writing the file. *)
MpSaveBegin(p) ==
    /\ mp.proc[p].pc = "checkpoint"
    /\ mp' = [mp EXCEPT !.proc[p].pc = "writing", !.writers = @ \cup {p}]
    /\ UNCHANGED <<trainerVars, bert, cls, att>>

(* save_checkpoint: torch.save returns; if is_best the copy follows. *)
MpSaveEnd(p) ==
    /\ mp.proc[p].pc = "writing"
    /\ mp' = [mp EXCEPT
                !.proc[p].pc = IF mp.proc[p].is_best THEN "copy" ELSE "epoch_loop",
                !.writers = @ \ {p}]
    /\ UNCHANGED <<trainerVars, bert, cls, att>>

(* save_checkpoint: shutil.copyfile(filename, "model_best.pth.tar") starts. *)
MpCopyBegin(p) ==
    /\ mp.proc[p].pc = "copy"
    /\ mp' = [mp EXCEPT !.proc[p].pc = "copying", !.copiers = @ \cup {p}]
    /\ UNCHANGED <<trainerVars, bert, cls, att>>

(* save_checkpoint: the copy is finished and save_checkpoint returns. *)
MpCopyEnd(p) ==
    /\ mp.proc[p].pc = "copying"
    /\ mp' = [mp EXCEPT !.proc[p].pc = "epoch_loop", !.copiers = @ \ {p}]
    /\ UNCHANGED <<trainerVars, bert, cls, att>>

NextProcs ==
    \E p \in Procs :
        \/ MpEpochLoop(p)
        \/ MpTrain(p)
        \/ MpTest(p)
        \/ MpSaveBegin(p)
        \/ MpSaveEnd(p)
        \/ MpCopyBegin(p)
        \/ MpCopyEnd(p)

SpecProcs == InitProcs /\ [][NextProcs]_vars

(***************************************************************************)
(* Properties of the trainer (specification Spec).                         *)
(***************************************************************************)

\* C1: with n_accumulation_steps = n >= 1 and a pass of L microbatches,
\* exactly one optimizer call follows each backward pass; the call for
\* microbatch i (0-based) is step() iff (i+1) is a multiple of n or i+1 = L,
\* and virtual_step() otherwise; noise has been added once per step() and
\* never by a virtual step.
C1_StepOrVirtual ==
    args.n_accumulation_steps >= 1 =>
        /\ Len(tr.calls) = (IF pc = "print" THEN tr.i + 1 ELSE tr.i)
        /\ \A j \in 1..Len(tr.calls) :
              (tr.calls[j] = "step") <=>
                  (j % args.n_accumulation_steps = 0 \/ j = args.loader_len)
        /\ \A j \in 1..Len(tr.calls) : tr.calls[j] \in {"step", "virtual"}
        /\ hist.microbatches =
              hist.steps + hist.virtuals + (IF pc = "optimize" THEN 1 ELSE 0)
        /\ engine.attached => engine.noise_adds = hist.steps

C1_Witness ==
    /\ args.n_accumulation_steps = 2
    /\ args.loader_len = 3
    /\ pc = "test"
    /\ tr.calls = <<"virtual", "step", "step">>
    /\ engine.attached
    /\ engine.noise_adds = 2

\* C2: the engine's accounting step count grows by exactly 1 on each
\* optimizer.step() and by 0 on each optimizer.virtual_step(); the engine is
\* created once, so the count is never reset and never decreases, and it
\* equals the number of optimizer.step() calls of the whole run.
C2_Accounting ==
    [][ /\ engine'.steps >= engine.steps
        /\ (engine.attached /\ hist'.steps = hist.steps + 1)
              => engine'.steps = engine.steps + 1
        /\ (hist'.virtuals = hist.virtuals + 1) => engine'.steps = engine.steps
        /\ engine.attached => engine'.attached
        /\ engine'.attached => engine'.steps = hist'.steps ]_vars

C2_Witness ==
    /\ engine.attached
    /\ main.epoch = 2
    /\ pc = "test"
    /\ args.n_accumulation_steps = 2
    /\ args.loader_len = 3
    /\ engine.steps = 4
    /\ hist.virtuals = 2

\* C3: a run whose configuration has DP disabled with
\* n_accumulation_steps > 1, an unknown optimizer name, or multi-process
\* setup on win32 never gets past the construction phase: no microbatch, no
\* optimizer step, no virtual step and no checkpoint write happens, and the
\* error raised is one of the three configuration errors or the import error.
ConfigError ==
    \/ args.disable_dp /\ args.n_accumulation_steps > 1
    \/ args.optim \notin {"SGD", "RMSprop", "Adam"}
    \/ args.local_rank # -1 /\ args.platform = "win32"

C3_FailFast ==
    ConfigError =>
        /\ pc \in {"setup", "check_accumulation", "secure_rng", "build",
                   "optimizer", "error"}
        /\ hist.microbatches = 0
        /\ hist.steps = 0
        /\ hist.virtuals = 0
        /\ disk.writes = 0
        /\ ~engine.attached
        /\ main.err \in {"none", "ValueError", "NotImplementedError", "ImportError"}

C3_Witness ==
    /\ args.disable_dp
    /\ args.n_accumulation_steps = 2
    /\ pc = "error"
    /\ main.err = "ValueError"
    /\ hist.microbatches = 0

\* C4: once the privacy engine is attached, the sample rate it accounts with
\* is the sampler's microbatch sample rate times n_accumulation_steps.
C4_EffectiveRate ==
    engine.attached =>
        engine.sample_rate = main.sampler_rate * args.n_accumulation_steps

C4_Witness ==
    /\ engine.attached
    /\ main.sampler_rate = 4
    /\ args.n_accumulation_steps = 3
    /\ engine.sample_rate = 12

\* C6: one checkpoint has been written per finished epoch, after that
\* epoch's train and test; model_best.pth.tar was copied in exactly the
\* epochs whose accuracy exceeds every earlier accuracy and 0; each
\* checkpoint stores the maximum accuracy seen so far, which never decreases.
RECURSIVE MaxSeen(_, _)
MaxSeen(accs, e) ==
    IF e = 0 THEN 0
    ELSE IF accs[e] > MaxSeen(accs, e - 1) THEN accs[e] ELSE MaxSeen(accs, e - 1)

C6_Checkpoints ==
    LET saved == Len(hist.stored) IN
    /\ disk.writes = saved
    /\ Len(hist.best_flags) = saved
    /\ Len(hist.accs) = saved + (IF pc = "checkpoint" THEN 1 ELSE 0)
    /\ pc \in {"train", "forward", "optimize", "print", "test"}
          => saved = main.epoch - StartEpoch
    /\ pc = "done" /\ args.epochs >= StartEpoch
          => saved = args.epochs - StartEpoch + 1
    /\ \A e \in 1..saved :
          /\ hist.best_flags[e] <=> (hist.accs[e] > MaxSeen(hist.accs, e - 1))
          /\ hist.stored[e] = MaxSeen(hist.accs, e)
          /\ e > 1 => hist.stored[e] >= hist.stored[e - 1]
    /\ disk.copies = Cardinality({e \in 1..saved : hist.best_flags[e]})
    /\ disk.checkpoint.exists <=> saved > 0
    /\ disk.checkpoint.exists => disk.checkpoint.best_acc1 = hist.stored[saved]
    /\ disk.best.exists <=> disk.copies > 0

C6_Witness ==
    /\ pc = "done"
    /\ hist.accs = <<1, 1>>
    /\ hist.best_flags = <<TRUE, FALSE>>
    /\ disk.writes = 2
    /\ disk.copies = 1
    /\ disk.checkpoint.best_acc1 = 1

\* C11: with n_accumulation_steps >= 1, whenever train is not running its
\* loop (before an epoch's train, and from its return on) the last optimizer
\* call of the pass was step() followed by zero_grad(): no microbatch has
\* been accumulated without being applied, also when L is not a multiple
\* of n.
RECURSIVE Pending(_)
Pending(calls) ==
    IF calls = <<>> \/ calls[Len(calls)] = "step" THEN 0
    ELSE 1 + Pending(SubSeq(calls, 1, Len(calls) - 1))

C11_CleanEpochStart ==
    (args.n_accumulation_steps >= 1
       /\ pc \in {"train", "test", "checkpoint", "epoch_loop", "cleanup", "done"})
    =>
        /\ Pending(tr.calls) = 0
        /\ main.epoch > 0 /\ pc # "train" =>
              /\ Len(tr.calls) = args.loader_len
              /\ tr.calls[args.loader_len] = "step"
        /\ engine.attached => engine.accumulated = 0

C11_Witness ==
    /\ args.n_accumulation_steps = 2
    /\ args.loader_len = 3
    /\ main.epoch = 2
    /\ pc = "train"
    /\ tr.calls = <<"virtual", "step", "step">>
    /\ engine.attached
    /\ engine.accumulated = 0

\* C12: with n_accumulation_steps = n >= 1, a pass of L microbatches makes
\* exactly ceil(L / n) optimizer.step() calls; each step aggregates between
\* 1 and n microbatches and only the last step of the pass may aggregate
\* fewer than n; so the sample rate given to the engine, sample_rate * n, is
\* at least the microbatch sample rate times the microbatches of any step.
GroupSize(calls, j) == 1 + Pending(SubSeq(calls, 1, j - 1))

StepIndexes(calls) == {j \in 1..Len(calls) : calls[j] = "step"}

C12_StepsPerPass ==
    args.n_accumulation_steps >= 1 =>
        LET n == args.n_accumulation_steps
            L == args.loader_len
        IN /\ \A j \in StepIndexes(tr.calls) :
                 /\ GroupSize(tr.calls, j) >= 1
                 /\ GroupSize(tr.calls, j) <= n
                 /\ GroupSize(tr.calls, j) < n => j = L
                 /\ engine.attached =>
                       main.sampler_rate * GroupSize(tr.calls, j)
                           <= engine.sample_rate
           /\ pc = "test" =>
                 Cardinality(StepIndexes(tr.calls)) = (L + n - 1) \div n

C12_Witness ==
    /\ args.n_accumulation_steps = 2
    /\ args.loader_len = 3
    /\ pc = "test"
    /\ engine.attached
    /\ Cardinality(StepIndexes(tr.calls)) = 2
    /\ GroupSize(tr.calls, 2) = 2
    /\ GroupSize(tr.calls, 3) = 1
    /\ engine.sample_rate = 2 * main.sampler_rate

\* C13: in a run with DP disabled whose n_accumulation_steps the
\* configuration check accepts (not > 1), train never calls
\* optimizer.virtual_step() and never reads optimizer.privacy_engine: every
\* optimizer call is step() and the progress line is the DP-free one.
C13_NoVirtualWithoutDP ==
    (args.disable_dp /\ ~(args.n_accumulation_steps > 1)) =>
        /\ hist.virtuals = 0
        /\ \A j \in 1..Len(tr.calls) : tr.calls[j] = "step"
        /\ tr.printed # "privacy"
        /\ main.err # "AttributeError"

(***************************************************************************)
(* Properties of model.py (specifications SpecAttack and SpecNoise).       *)
(***************************************************************************)

\* C7: for an ensemble of k attackers called with k auxiliary labels,
\* forward returns the sum over the k attackers of attacker i's
\* cross-entropy against label i, and one prediction entry per attacker,
\* the i-th being the argmax of attacker i's logits.
RECURSIVE PairedLoss(_, _, _)
PairedLoss(logits, labels, k) ==
    IF k = 0 THEN 0
    ELSE PairedLoss(logits, labels, k - 1) + XEntropy(logits[k], labels[k])

C7_AttackersForward ==
    (att.pc = "done" /\ Len(att.outputs) = att.n_attack) =>
        /\ att.loss = PairedLoss(att.logits, att.outputs, att.n_attack)
        /\ Len(att.preds) = att.n_attack
        /\ \A i \in 1..att.n_attack :
              \A b \in 1..Len(att.logits[i]) :
                 LET z == att.logits[i][b]
                 IN att.preds[i][b] = (IF z[2] > z[1] THEN 1 ELSE 0)

C7_Witness ==
    /\ att.pc = "done"
    /\ att.n_attack = 2
    /\ Len(att.outputs) = 2
    /\ att.logits[1] # att.logits[2]
    /\ att.outputs[1] # att.outputs[2]
    /\ Len(att.preds) = 2
    /\ att.loss > 0

\* C8: the returned noised representation is, for every example i and
\* feature d, (repr[i][d] - min_i) / (max_i - min_i) + noise[i], with min_i
\* and max_i the minimum and maximum of example i's own features (repr is
\* the pooled output as it enters the scaling, after dropout); where
\* max_i = min_i the quotient is 0/0 and the entry is NaN.
C8_NoisedRepresentation ==
    bert.pc = "done" =>
        /\ Len(bert.out) = Len(bert.repr)
        /\ \A i \in 1..Len(bert.repr) :
              LET row == bert.repr[i]
                  lo == SeqMin(row)
                  hi == SeqMax(row)
              IN /\ Len(bert.out[i]) = Len(row)
                 /\ \A d \in 1..Len(row) :
                       bert.out[i][d] =
                           IF hi = lo THEN NaN
                           ELSE FDiv((row[d] - lo) + bert.noise[i] * (hi - lo),
                                     hi - lo)

C8_Witness ==
    /\ bert.pc = "done"
    /\ Len(bert.repr) = 2
    /\ bert.repr[1] = <<0, 2, 1>>
    /\ bert.repr[2] = <<3, 1, 2>>
    /\ bert.noise = <<-1, 2>>
    /\ bert.out[1] = << <<-1, 1>>, <<0, 1>>, <<-1, 2>> >>
    /\ bert.out[2] = << <<3, 1>>, <<2, 1>>, <<5, 2>> >>

\* C9: an example whose representation has max = min gets a finite
\* normalized representation from BertForSequenceClassificationWithDP.forward
\* and from the normalization of Classifier.forward.
ZeroRange(row) == SeqMax(row) = SeqMin(row)

C9_ZeroRangeGuarded ==
    /\ bert.pc = "done" =>
          \A i \in 1..Len(bert.repr) :
             ZeroRange(bert.repr[i]) =>
                \A d \in 1..Len(bert.out[i]) : Finite(bert.out[i][d])
    /\ cls.pc = "done" =>
          \A i \in 1..Len(cls.inputs) :
             ZeroRange(cls.inputs[i]) =>
                \A d \in 1..Len(cls.out[i]) : Finite(cls.out[i][d])

(***************************************************************************)
(* Properties of the multi-process run (specification SpecProcs).          *)
(***************************************************************************)

\* C14: at any moment at most one process is inside save_checkpoint writing
\* the checkpoint file or copying it to model_best.pth.tar, and no process
\* copies the checkpoint while another one is writing it.
C14_ExclusiveCheckpoint ==
    /\ Cardinality(mp.writers \cup mp.copiers) <= 1
    /\ mp.copiers # {} => mp.writers = {}

====
